---------------------------- MODULE Spec2Model ----------------------------
(***************************************************************************)
(* The compilation driver of python/triton/compiler/compiler.py:           *)
(* compile() with its content-addressed cache (probe, per-artifact puts,   *)
(* group commit), and the lazily bound CompiledKernel handle.              *)
(***************************************************************************)
EXTENDS Integers, Sequences, FiniteSets, TLC

(***************************************************************************)
(* Bounds of the exploration.                                              *)
(***************************************************************************)
\* files the store loses per behaviour
MaxLost == 1
\* entry-point accesses, grid indexings and launches per handle
MaxUses == 3

\* Python's None, where a path, a key or a group mapping is expected
None == <<>>

(***************************************************************************)
(* Small helpers over sequences and sets.                                  *)
(***************************************************************************)
Range(s) == {s[i] : i \in 1..Len(s)}

RECURSIVE SortedBy(_, _)
\* the elements of the finite set S as a sequence, ascending by rank[x]
SortedBy(S, rank) ==
    IF S = {} THEN <<>>
    ELSE LET m == CHOOSE x \in S : \A y \in S : rank[x] <= rank[y]
         IN  <<m>> \o SortedBy(S \ {m}, rank)

RECURSIVE SortedInts(_)
SortedInts(S) ==
    IF S = {} THEN <<>>
    ELSE LET m == CHOOSE x \in S : \A y \in S : x <= y
         IN  <<m>> \o SortedInts(S \ {m})

\* hashlib.md5(...).hexdigest(): deterministic and, for the inputs explored,
\* collision free; a digest is kept as the tagged text it was computed from
MD5(text) == <<"md5", text>>

(***************************************************************************)
(* Environment snapshot: get_env_vars() returns a dict name -> bool.       *)
(* An environment is the sequence of its (name, value) items in the order  *)
(* the dict enumerates them; values are 0 / 1.                             *)
(***************************************************************************)
EnvNames == {"ENABLE_TMA", "MLIR_ENABLE_DUMP"}

\* lexicographic order of the variable names (Python str comparison)
StrRank == [n \in EnvNames |-> IF n = "ENABLE_TMA" THEN 1 ELSE 2]

EnvItem(n, v) == <<n, v>>

Envs ==
    { <<EnvItem("ENABLE_TMA", 0), EnvItem("MLIR_ENABLE_DUMP", 0)>>,
      <<EnvItem("MLIR_ENABLE_DUMP", 0), EnvItem("ENABLE_TMA", 0)>>,
      <<EnvItem("ENABLE_TMA", 1), EnvItem("MLIR_ENABLE_DUMP", 0)>> }

\* sorted(d.items()): names are unique in a dict, so the name decides
SortedItems(env) ==
    SortedBy(Range(env), [it \in Range(env) |-> StrRank[it[1]]])

\* Per-process string hash randomisation (PYTHONHASHSEED).  A seed stands
\* for the order in which the interpreter's hash places the (name, value)
\* pairs; the four seeds give every combination of orders for the two sets
\* of pairs that the snapshots of Envs hold.
HashSeeds == {0, 1, 2, 3}

\* the pairs in ascending order of their hash, for each seed
HashOrder ==
    << <<EnvItem("ENABLE_TMA", 0), EnvItem("ENABLE_TMA", 1),
         EnvItem("MLIR_ENABLE_DUMP", 0), EnvItem("MLIR_ENABLE_DUMP", 1)>>,
       <<EnvItem("MLIR_ENABLE_DUMP", 0), EnvItem("MLIR_ENABLE_DUMP", 1),
         EnvItem("ENABLE_TMA", 0), EnvItem("ENABLE_TMA", 1)>>,
       <<EnvItem("ENABLE_TMA", 1), EnvItem("MLIR_ENABLE_DUMP", 0),
         EnvItem("MLIR_ENABLE_DUMP", 1), EnvItem("ENABLE_TMA", 0)>>,
       <<EnvItem("ENABLE_TMA", 0), EnvItem("MLIR_ENABLE_DUMP", 0),
         EnvItem("MLIR_ENABLE_DUMP", 1), EnvItem("ENABLE_TMA", 1)>> >>

\* hash((name, value)) as the running interpreter computes it: a function of
\* the whole pair and of the process's hash seed
PyHash(item, hseed) ==
    CHOOSE i \in 1..Len(HashOrder[hseed + 1]) : HashOrder[hseed + 1][i] = item

\* str(frozenset(items)): a set has no order of its own; iteration follows
\* the hash slots of the elements, whatever order they were inserted in
FrozensetStr(items, hseed) ==
    SortedBy(Range(items), [it \in Range(items) |-> PyHash(it, hseed)])

\* f"{frozenset(sorted(get_env_vars().items()))}"
EnvFingerprint(env, hseed) == FrozensetStr(SortedItems(env), hseed)

(***************************************************************************)
(* Source descriptors.  A source is either a JIT function with its         *)
(* signature, constants and specialisation (ASTSource) or the path of an   *)
(* IR text file (IRSource).  The text of an IR file is represented by its  *)
(* identity `text` together with what the regular expressions of the       *)
(* driver find in it.                                                      *)
(***************************************************************************)
\* a Python set object of small ints, kept as the sequence of its elements in
\* the order a loop over the object visits them (the order of its table,
\* which depends on how the object was built); a field of InstanceDescriptor
\* holds such an object, or None
PySet(order) == [order |-> order]

\* the elements of a set object
Elems(set) == Range(set.order)

\* a Python dict {k1: v1, ...} as its keys and its values, in insertion order;
\* the signature argument of compile() holds one, or None
PyDict(keys, values) == [keys |-> keys, values |-> values]

\* InstanceDescriptor(): the dataclass defaults, every field None
NoConfig ==
    [divisible_by_16 |-> None, equal_to_1 |-> None, ids_of_folded_args |-> None,
     divisible_by_8 |-> None]

\* a jitted function "add" with two pointer arguments and one folded argument,
\* compiled with signature={0: t, 1: t, 2: u}
SrcAst ==
    [kind |-> "ast", ext |-> "ttir", name |-> "add", cache_key |-> 11,
     signature |-> PyDict(<<0, 1, 2>>, <<1, 1, 2>>), constants |-> <<>>,
     config |-> [divisible_by_16 |-> PySet(<<0, 1>>), equal_to_1 |-> PySet(<<>>),
                 ids_of_folded_args |-> PySet(<<2>>), divisible_by_8 |-> PySet(<<>>)],
     text |-> 0, num_warps_matches |-> <<>>, num_warp_groups_matches |-> <<>>,
     shared |-> 40000]

\* a ttgir file carrying "triton_gpu.num-warps" = 8 exactly once
SrcTtgir ==
    [kind |-> "ir", ext |-> "ttgir", name |-> "dot", cache_key |-> 0,
     signature |-> None, constants |-> <<>>,
     config |-> NoConfig,
     text |-> 21, num_warps_matches |-> <<8>>, num_warp_groups_matches |-> <<>>,
     shared |-> 70000]

\* a ttgir file in which the num-warps attribute does not occur
SrcTtgirNoWarps ==
    [kind |-> "ir", ext |-> "ttgir", name |-> "bad", cache_key |-> 0,
     signature |-> None, constants |-> <<>>,
     config |-> NoConfig,
     text |-> 22, num_warps_matches |-> <<>>, num_warp_groups_matches |-> <<>>,
     shared |-> 0]

\* a ttgir file with "triton_gpu.num-warps" = 4 and
\* "triton_gpu.num-warp-groups-per-cta" = 3, each exactly once
SrcTtgirGroups ==
    [kind |-> "ir", ext |-> "ttgir", name |-> "ws", cache_key |-> 0,
     signature |-> None, constants |-> <<>>,
     config |-> NoConfig,
     text |-> 24, num_warps_matches |-> <<4>>, num_warp_groups_matches |-> <<3>>,
     shared |-> 40000]

\* a ttgir file in which the num-warps attribute occurs twice
SrcTtgirTwoWarps ==
    [kind |-> "ir", ext |-> "ttgir", name |-> "bad", cache_key |-> 0,
     signature |-> None, constants |-> <<>>,
     config |-> NoConfig,
     text |-> 25, num_warps_matches |-> <<4, 8>>, num_warp_groups_matches |-> <<>>,
     shared |-> 0]

\* a ttgir file in which the num-warp-groups-per-cta attribute occurs twice
SrcTtgirTwoGroups ==
    [kind |-> "ir", ext |-> "ttgir", name |-> "bad", cache_key |-> 0,
     signature |-> None, constants |-> <<>>,
     config |-> NoConfig,
     text |-> 26, num_warps_matches |-> <<4>>, num_warp_groups_matches |-> <<2, 2>>,
     shared |-> 0]

\* the jitted function "add" compiled with config left to its default
SrcAstDefault == [SrcAst EXCEPT !.config = NoConfig]

\* the file of SrcTtgir compiled with the keyword signature={}; an IRSource
\* keeps neither the signature nor the config, line 189 tests the keyword
SrcTtgirSigned == [SrcTtgir EXCEPT !.signature = PyDict(<<>>, <<>>)]

\* the jitted function "add" compiled with signature left to its default
SrcAstNoSignature == [SrcAst EXCEPT !.signature = None]

Sources ==
    {SrcAst, SrcTtgir, SrcTtgirNoWarps, SrcTtgirGroups, SrcTtgirTwoWarps,
     SrcTtgirTwoGroups, SrcAstDefault, SrcTtgirSigned, SrcAstNoSignature}

\* whether InstanceDescriptor.hash raises: sorted(None) is a TypeError
InstanceDescriptor_hash_raises(config) ==
    \/ config.divisible_by_16 = None
    \/ config.equal_to_1 = None
    \/ config.ids_of_folded_args = None
    \/ config.divisible_by_8 = None

\* InstanceDescriptor.hash: the digest, or "TypeError"
InstanceDescriptor_hash(config) ==
    IF InstanceDescriptor_hash_raises(config) THEN "TypeError"
    ELSE MD5(<<SortedInts(Elems(config.divisible_by_16)),
               SortedInts(Elems(config.equal_to_1)),
               SortedInts(Elems(config.ids_of_folded_args)),
               SortedInts(Elems(config.divisible_by_8))>>)

\* the exception ASTSource.hash raises, or "": the f-string formats
\* self.config.hash() first (TypeError on a None field), then
\* self.signature.values() (AttributeError on None)
ASTSource_hash_error(src) ==
    IF InstanceDescriptor_hash_raises(src.config) THEN "TypeError"
    ELSE IF src.signature = None THEN "AttributeError"
    ELSE ""

\* ASTSource.hash: the digest, or the exception; of the signature it formats
\* self.signature.values()
ASTSource_hash(src) ==
    IF ASTSource_hash_error(src) # "" THEN ASTSource_hash_error(src)
    ELSE MD5(<<src.cache_key, InstanceDescriptor_hash(src.config),
               src.signature.values, src.constants>>)

\* IRSource.hash
IRSource_hash(src) == MD5(<<src.text>>)

src_hash(src) ==
    IF src.kind = "ast" THEN ASTSource_hash(src) ELSE IRSource_hash(src)

\* the exception src.hash() raises, or ""
src_hash_error(src) ==
    IF src.kind = "ast" THEN ASTSource_hash_error(src) ELSE ""

\* whether src.hash() raises
src_hash_raises(src) == src_hash_error(src) # ""

\* _get_num_warps_from_ir_str: the value, or "AssertionError"
get_num_warps_from_ir_str(src) ==
    IF Len(src.num_warps_matches) # 1 THEN "AssertionError"
    ELSE IF Len(src.num_warp_groups_matches) > 1 THEN "AssertionError"
    ELSE IF Len(src.num_warp_groups_matches) = 1
         THEN src.num_warps_matches[1] * src.num_warp_groups_matches[1]
    ELSE src.num_warps_matches[1]

update_options_raises_Never(src) == FALSE

\* whether src.update_options(options) raises
update_options_raises(src) ==
    /\ src.kind = "ir"
    /\ src.ext = "ttgir"
    /\ \/ Len(src.num_warps_matches) # 1
       \/ Len(src.num_warp_groups_matches) > 1

update_options_Keep(src, options) == options

\* src.update_options(options): the options after the call
update_options(src, options) ==
    IF src.kind = "ir" /\ src.ext = "ttgir"
    THEN [options EXCEPT !.num_warps = get_num_warps_from_ir_str(src)]
    ELSE options

(***************************************************************************)
(* Backend collaborator (CUDABackend): option parsing, hashes, the stage   *)
(* chain and what the stages report.                                       *)
(***************************************************************************)
Capabilities == {80}
KwNumWarps == {4, 8}
\* extern_libs = None
NoLibs == <<>>

parse_options(kw_num_warps) == [num_warps |-> kw_num_warps, num_ctas |-> 1]

options_hash(options) == MD5(<<options.num_warps, options.num_ctas>>)

backend_hash(capability) == MD5(<<capability>>)

\* the keys of the dict filled by backend.add_stages, in insertion order
StageChain == <<"ttir", "ttgir", "llir", "ptx", "cubin">>

binary_ext == "cubin"

IndexOf(seq, x) == CHOOSE i \in 1..Len(seq) : seq[i] = x

(***************************************************************************)
(* The cache key of a compile request, as composed in compile().           *)
(***************************************************************************)
Requests ==
    [src : Sources, capability : Capabilities, num_warps : KwNumWarps, env : Envs,
     extern_libs : {NoLibs}]

\* the options compile() holds after parse_options and update_options
RefinedOptions(req) == update_options(req.src, parse_options(req.num_warps))

KeyText_NoEnv(req, options, hseed) ==
    <<src_hash(req.src), backend_hash(req.capability), options_hash(options), <<>>>>

\* key = f"{src.hash()}-{backend.hash()}-{options.hash()}-{frozenset(...)}",
\* or "TypeError" when src.hash() raises
KeyText(req, options, hseed) ==
    IF src_hash_raises(req.src) THEN src_hash_error(req.src)
    ELSE <<src_hash(req.src), backend_hash(req.capability), options_hash(options),
           EnvFingerprint(req.env, hseed)>>

CacheKey(req, options, hseed) ==
    IF src_hash_raises(req.src) THEN src_hash_error(req.src)
    ELSE MD5(KeyText(req, options, hseed))

(***************************************************************************)
(* Run metadata: a Python dict, kept as the sequence of its items in       *)
(* insertion order.  An item is <<key, type, value>>; every value is a     *)
(* sequence of integers (a scalar is a sequence of length one).            *)
(***************************************************************************)
HasKey(md, k) == \E i \in 1..Len(md) : md[i][1] = k

\* md[k] = <<type, value>> as a dict assignment: overwrite in place, or append
DictSet(md, k, type, val) ==
    IF HasKey(md, k)
    THEN [i \in 1..Len(md) |-> IF md[i][1] = k THEN <<k, type, val>> ELSE md[i]]
    ELSE Append(md, <<k, type, val>>)

DictGet(md, k) == md[CHOOSE i \in 1..Len(md) : md[i][1] = k][3]

RECURSIVE DictUpdate(_, _)
\* {**md, **items}
DictUpdate(md, items) ==
    IF items = <<>> THEN md
    ELSE DictUpdate(DictSet(md, items[1][1], items[1][2], items[1][3]), Tail(items))

\* tuple([int(k) for k in set]): the elements in the order of the object
SetIter(set) == set.order

\* whether "initialize metadata" raises: with signature given, the loop of
\* line 190 over config.ids_of_folded_args = None is a TypeError
InitialMetadata_raises(req) ==
    /\ req.src.signature # None
    /\ req.src.config.ids_of_folded_args = None

\* compile(), "initialize metadata": the dict, or "TypeError"
InitialMetadata(req, options) ==
    LET base == <<<<"device_type", "tuple", <<req.capability>>>>>>
        opts == <<<<"num_warps", "int", <<options.num_warps>>>>,
                  <<"num_ctas", "int", <<options.num_ctas>>>>>>
        envs == [i \in 1..Len(req.env) |-> <<req.env[i][1], "bool", <<req.env[i][2]>>>>]
        md   == DictUpdate(DictUpdate(base, opts), envs)
    IN  IF InitialMetadata_raises(req) THEN "TypeError"
        ELSE IF req.src.signature # None
        THEN DictSet(md, "ids_of_folded_args", "tuple",
                     SetIter(req.src.config.ids_of_folded_args))
        ELSE md

\* json.dumps: tuples and lists both become JSON arrays
JsonType(t) == IF t \in {"tuple", "list"} THEN "array" ELSE t
\* json.loads: a JSON array becomes a list
PyType(t) == IF t = "array" THEN "list" ELSE t

json_dumps(md) == [i \in 1..Len(md) |-> <<md[i][1], JsonType(md[i][2]), md[i][3]>>]
json_loads(text) == [i \in 1..Len(text) |-> <<text[i][1], PyType(text[i][2]), text[i][3]>>]

(***************************************************************************)
(* Source and backend operations used by the pipeline.                     *)
(***************************************************************************)
\* src.make_ir(options): the initial module, in the source's native format
make_ir(src, options) ==
    [fmt |-> src.ext, name |-> src.name, shared |-> src.shared,
     num_warps |-> options.num_warps, libs |-> NoLibs]

\* one stage function of the chain built by add_stages(extern_libs, stages,
\* options): the lowered module; the llir stage links the external libraries
compile_ir_module(ext, module, extern_libs) ==
    [module EXCEPT !.fmt = ext,
                   !.libs = IF ext = "llir" THEN extern_libs ELSE @]

\* one stage function of the chain: what it reports into the metadata
compile_ir_metadata(ext, module, metadata) ==
    IF ext = "llir" THEN DictSet(metadata, "shared", "int", <<module.shared>>)
    ELSE metadata

(***************************************************************************)
(* The artifact store (one directory per cache key).  A file name is       *)
(* <<prefix, stem, suffix>>; the group file of "add.json" is               *)
(* "__grp__add.json".                                                      *)
(***************************************************************************)
ArtifactName(name, ext) == <<"", name, ext>>
MetadataName(name) == <<"", name, "json">>
GroupName(fname) == <<"__grp__", fname[2], fname[3]>>
PathOf(key, fname) == <<key, fname>>

Exists(store, path) == path \in DOMAIN store

\* fn_cache_manager.put(data, filename): written through a temporary file
\* and renamed, so the file appears whole or not at all
put(store, key, fname, data) ==
    [p \in DOMAIN store \cup {PathOf(key, fname)} |->
        IF p = PathOf(key, fname) THEN data ELSE store[p]]

\* fn_cache_manager.put_group(filename, group): records the child names
put_group(store, key, fname, group) ==
    put(store, key, GroupName(fname), DOMAIN group)

\* fn_cache_manager.get_group(filename): None without a group file, else
\* the recorded children that still exist, each with its path
get_group(store, key, fname) ==
    IF ~Exists(store, PathOf(key, GroupName(fname))) THEN None
    ELSE LET children == store[PathOf(key, GroupName(fname))]
         IN  [c \in {d \in children : Exists(store, PathOf(key, d))} |-> PathOf(key, c)]

\* {} : the empty dict
EmptyGroup == <<>>

\* get_group(...) or {}
OrEmpty(group) == IF group = None THEN EmptyGroup ELSE group

\* cache_group[name] = path
GroupSet(group, fname, path) ==
    [c \in DOMAIN group \cup {fname} |-> IF c = fname THEN path ELSE group[c]]

\* cache_group.get(name)
GroupGet(group, fname) == IF fname \in DOMAIN group THEN group[fname] ELSE None

(***************************************************************************)
(* CompiledKernel.__init__(so_path, metadata_path)                         *)
(***************************************************************************)
NoHandle ==
    [live |-> FALSE, metadata |-> <<>>, asm |-> <<>>, kernel |-> <<>>,
     module |-> 0, function |-> 0, n_regs |-> 0, n_spills |-> 0]

\* the sibling files of the metadata file that share its stem, but not .json
AsmFiles(store, metadata_path) ==
    {p \in DOMAIN store :
        /\ p[1] = metadata_path[1]
        /\ p[2][1] = ""
        /\ p[2][2] = metadata_path[2][2]
        /\ p[2][3] # "json"}

AsmOf(store, metadata_path) ==
    [ext \in {p[2][3] : p \in AsmFiles(store, metadata_path)} |->
        store[PathOf(metadata_path[1], ArtifactName(metadata_path[2][2], ext))]]

\* the exception __init__ raises, or "" when it returns
CompiledKernel_init_error(store, metadata_path) ==
    IF ~Exists(store, metadata_path) THEN "FileNotFoundError"
    ELSE IF binary_ext \notin DOMAIN AsmOf(store, metadata_path) THEN "KeyError"
    ELSE ""

\* the object __init__ leaves: metadata and asm loaded, nothing bound
CompiledKernel_init(store, metadata_path) ==
    [live |-> TRUE,
     metadata |-> json_loads(store[metadata_path]),
     asm |-> AsmOf(store, metadata_path),
     kernel |-> AsmOf(store, metadata_path)[binary_ext],
     module |-> 0, function |-> 0, n_regs |-> 0, n_spills |-> 0]

(***************************************************************************)
(* State.                                                                  *)
(***************************************************************************)
VARIABLES
    hseed,      \* the hash seed of the running interpreter process
    run,        \* the locals of the current (or last) compile() call
    files,      \* the artifact store: path -> content
    handle,     \* the CompiledKernel last returned to the caller
    pool,       \* the requests of this behaviour: one set of inputs
    committed,  \* history: keys for which put_group has returned
    aborted,    \* history: miss runs cut short, and where
    device,     \* max_shared_mem of the current device
    bind,       \* counters and last error of the handle's binding
    uses,       \* uses of the handle so far
    nlost,      \* files the store has lost so far
    returned,   \* history: the compiles that returned a handle
    other       \* a second interpreter process: its hash seed and the locals
                \* of its compile() call

vars == <<hseed, run, files, handle, pool, committed, aborted, device, bind, uses,
          nlost, returned, other>>
lvars == <<device, bind, uses, nlost, returned, other>>

\* where the current compile() call stands ("idle" between calls)
pc == run.pc

NoModule == [fmt |-> "", name |-> "", shared |-> 0, num_warps |-> 0, libs |-> NoLibs]

\* the inputs of a request, the environment taken as a set of pairs
Inputs(req) ==
    [src |-> req.src, capability |-> req.capability, num_warps |-> req.num_warps,
     env |-> Range(req.env), extern_libs |-> req.extern_libs]

Event(op, arg) == <<op, arg>>

\* the steps of compile() that follow the return of put_group
AfterCommit == {"stub", "handle"}

\* history: how the last miss run for `key` was cut short ("raised" or
\* "interrupted"), and whether its put_group had returned by then; kept
\* until a later run commits the key
Aborted(key, step, how) ==
    {a \in aborted : a.key # key}
        \cup {[key |-> key, how |-> how, commit |-> step \in AfterCommit]}

\* history: a compile of request r.req returned handle h
Returned(r, h) ==
    [inputs |-> Inputs(r.req), key |-> r.key, path |-> r.path, metadata |-> h.metadata]

\* Each behaviour follows the compiles of one set of inputs: the requests of a
\* pool differ only in the order in which the environment is enumerated.
\* (The directories of different keys do not interact.)
Pools == {{r \in Requests : Inputs(r) = Inputs(q)} : q \in Requests}

\* the locals of compile() on entry
NewRun(req) ==
    [pc |-> "begin", status |-> "running", error |-> "", req |-> req,
     options |-> parse_options(req.num_warps), key |-> None,
     cache_group |-> EmptyGroup, missing |-> {}, metadata_path |-> None,
     metadata |-> <<>>, i |-> 0, module |-> NoModule, path |-> "", log |-> <<>>,
     self |-> NoHandle, asm_files |-> {}]

\* a second process that has not called compile()
NoOther(req) ==
    [hseed |-> 0, run |-> [NewRun(req) EXCEPT !.pc = "idle", !.status = "none"]]

(***************************************************************************)
(* CompiledKernel._init_handles and the uses of a handle.                  *)
(***************************************************************************)
\* binding bookkeeping of the handle: what the driver collaborators were
\* asked (queries, loads, native_calls), the runner closure handed out, the
\* exception of the last use, and history fields kept for the properties
NoBind ==
    [queries |-> 0, loads |-> 0, native_calls |-> 0, unbound_calls |-> 0,
     runner |-> FALSE, error |-> "", requested |-> 0, available |-> 0, what |-> "",
     entered |-> 0, last_dev |-> 0, last_unbound |-> FALSE,
     first_module |-> 0, first_function |-> 0, q_at_bind |-> 0,
     oor |-> 0, q_at_oor |-> 0, marshal_errors |-> 0]

MaxSharedVals == {40000, 49152, 101376}

Init ==
    /\ hseed \in HashSeeds
    /\ pool \in Pools
    /\ run = [NewRun(CHOOSE r \in pool : TRUE) EXCEPT !.pc = "idle", !.status = "none"]
    /\ files = <<>>
    /\ handle = NoHandle
    /\ committed = {}
    /\ aborted = {}
    /\ device = 49152
    /\ bind = NoBind
    /\ uses = 0
    /\ nlost = 0
    /\ returned = {}
    /\ other = NoOther(CHOOSE r \in pool : TRUE)

(***************************************************************************)
(* compile(): the effect of each step on the locals and on the store.      *)
(***************************************************************************)
MetadataFilename(src) == MetadataName(src.name)

\* cache_group = get_group(metadata_filename) or {}
ProbeGroup(store, key, fname) == OrEmpty(get_group(store, key, fname))

ProbeMetadataPath_ByFile(store, key, fname) ==
    IF Exists(store, PathOf(key, fname)) THEN PathOf(key, fname) ELSE None

ProbeMetadataPath_GroupName(store, key, fname) ==
    GroupGet(ProbeGroup(store, key, fname), GroupName(fname))

\* metadata_path = cache_group.get(metadata_filename)
ProbeMetadataPath(store, key, fname) == GroupGet(ProbeGroup(store, key, fname), fname)

IsCacheHit_Never(metadata_path) == FALSE

\* if metadata_path is not None:
IsCacheHit(metadata_path) == metadata_path # None

\* the children a group file records that the probe did not return
MissingChildren(store, key, fname) ==
    IF Exists(store, PathOf(key, GroupName(fname)))
    THEN store[PathOf(key, GroupName(fname))] \ DOMAIN ProbeGroup(store, key, fname)
    ELSE {}

BeginStep_KeyFirst(r) ==
    [r EXCEPT !.pc = "key",
              !.log = @ \o <<Event("update_options", "")>>]

\* src.update_options(options) has returned
BeginStep(r) ==
    [r EXCEPT !.pc = "key",
              !.options = update_options(r.req.src, @),
              !.log = @ \o <<Event("update_options", "")>>]

\* key = ...; hash = md5(key); get_group; metadata_path
ProbeStep(r, store, seed) ==
    LET key   == CacheKey(r.req, r.options, seed)
        fname == MetadataFilename(r.req.src)
        mpath == ProbeMetadataPath(store, key, fname)
    IN  [r EXCEPT !.pc = IF IsCacheHit(mpath) THEN "hit" ELSE "miss",
                  !.path = IF IsCacheHit(mpath) THEN "hit" ELSE "miss",
                  !.key = key,
                  !.cache_group = ProbeGroup(store, key, fname),
                  !.missing = MissingChildren(store, key, fname),
                  !.metadata_path = mpath,
                  !.log = @ \o <<Event("key", ""), Event("get_group", "")>>]

\* metadata = json.loads(Path(metadata_path).read_text());
\* so_path = backend.make_launcher_stub(src, metadata)
HitLoadStep(r, store) ==
    [r EXCEPT !.pc = "hit_handle",
              !.metadata = json_loads(store[r.metadata_path]),
              !.log = @ \o <<Event("read_metadata", ""), Event("make_launcher_stub", "")>>]

MissInitStep_WholeChain(r) ==
    [r EXCEPT !.pc = "stage",
              !.metadata = InitialMetadata(r.req, r.options),
              !.i = 1,
              !.module = make_ir(r.req.src, r.options),
              !.log = @ \o <<Event("make_ir", "")>>]

HitLoadStore_PutGroup(r, store) ==
    put_group(store, r.key, MetadataFilename(r.req.src),
              GroupSet(EmptyGroup, MetadataFilename(r.req.src), r.metadata_path))

\* the hit branch puts nothing: the store after it
HitLoadStore(r, store) == store

\* metadata = {...}; stages = ...; first_stage = ...; module = src.make_ir(options)
MissInitStep(r) ==
    [r EXCEPT !.pc = "stage",
              !.metadata = InitialMetadata(r.req, r.options),
              !.i = IndexOf(StageChain, r.req.src.ext),
              !.module = make_ir(r.req.src, r.options),
              !.log = @ \o <<Event("make_ir", "")>>]

\* one iteration of: for ext, compile_ir in list(stages.items())[first_stage:]
StageStep(r) ==
    LET ext   == StageChain[r.i]
        fname == ArtifactName(r.req.src.name, ext)
    IN  [r EXCEPT !.pc = IF r.i = Len(StageChain) THEN "write_meta" ELSE "stage",
                  !.metadata = compile_ir_metadata(ext, r.module, @),
                  !.cache_group = GroupSet(@, fname, PathOf(r.key, fname)),
                  !.module = compile_ir_module(ext, @, r.req.extern_libs),
                  !.i = @ + 1,
                  !.log = @ \o <<Event("stage", ext), Event("put", ext)>>]

StageStore_Commit(r, store) ==
    put_group(put(store, r.key, ArtifactName(r.req.src.name, StageChain[r.i]),
                  compile_ir_module(StageChain[r.i], r.module, r.req.extern_libs)),
              r.key, MetadataFilename(r.req.src),
              GroupSet(r.cache_group, ArtifactName(r.req.src.name, StageChain[r.i]),
                       PathOf(r.key, ArtifactName(r.req.src.name, StageChain[r.i]))))

\* fn_cache_manager.put(next_module, f"{src.name}.{ext}")
StageStore(r, store) ==
    put(store, r.key, ArtifactName(r.req.src.name, StageChain[r.i]),
        compile_ir_module(StageChain[r.i], r.module, r.req.extern_libs))

\* cache_group[metadata_filename] = put(json.dumps(metadata), metadata_filename)
WriteMetadataStep(r) ==
    LET fname == MetadataFilename(r.req.src)
    IN  [r EXCEPT !.pc = "put_group",
                  !.cache_group = GroupSet(@, fname, PathOf(r.key, fname)),
                  !.log = @ \o <<Event("put", "json")>>]

WriteMetadataStore_Commit(r, store) ==
    put_group(put(store, r.key, MetadataFilename(r.req.src), json_dumps(r.metadata)),
              r.key, MetadataFilename(r.req.src),
              GroupSet(r.cache_group, MetadataFilename(r.req.src),
                       PathOf(r.key, MetadataFilename(r.req.src))))

\* fn_cache_manager.put(json.dumps(metadata), metadata_filename, binary=False)
WriteMetadataStore(r, store) ==
    put(store, r.key, MetadataFilename(r.req.src), json_dumps(r.metadata))

\* fn_cache_manager.put_group(metadata_filename, cache_group)
PutGroupStep(r) ==
    [r EXCEPT !.pc = "stub", !.log = @ \o <<Event("put_group", "")>>]

PutGroupStore_MetadataOnly(r, store) ==
    put_group(store, r.key, MetadataFilename(r.req.src),
              GroupSet(EmptyGroup, MetadataFilename(r.req.src),
                       PathOf(r.key, MetadataFilename(r.req.src))))

PutGroupStore(r, store) ==
    put_group(store, r.key, MetadataFilename(r.req.src), r.cache_group)

\* so_path = backend.make_launcher_stub(src, metadata)
StubStep(r) ==
    [r EXCEPT !.pc = "handle", !.log = @ \o <<Event("make_launcher_stub", "")>>]

\* the metadata path handed to CompiledKernel by the return statement
ReturnedPath(r) ==
    IF r.path = "hit" THEN r.metadata_path
    ELSE GroupGet(r.cache_group, MetadataFilename(r.req.src))

\* return CompiledKernel(...)
ReturnStep(r) ==
    [r EXCEPT !.pc = "idle", !.status = "done",
              !.log = @ \o <<Event("CompiledKernel", "")>>]

\* the call leaves compile() with exception `err`
RaiseStep(r, err) == [r EXCEPT !.pc = "idle", !.status = "failed", !.error = err]

(***************************************************************************)
(* compile(): one action per step of the call.                             *)
(***************************************************************************)
\* the call raises `err` at `step`: compile() is left
Raise(err, step) ==
    /\ run' = RaiseStep(run, err)
    /\ aborted' = IF run.path = "hit" THEN aborted
                  ELSE Aborted(run.key, step, "raised")

\* src = ...; backend = ...; options = backend.parse_options(**kwargs);
\* src.update_options(options)
Begin(req) ==
    /\ pc = "idle"
    /\ req \in pool
    /\ IF update_options_raises(req.src)
       THEN /\ run' = RaiseStep([NewRun(req) EXCEPT
                                    !.log = <<Event("update_options", "raise")>>],
                                "AssertionError")
            /\ aborted' = Aborted(None, "update_options", "raised")
       ELSE /\ run' = BeginStep(NewRun(req))
            /\ aborted' = aborted
    /\ UNCHANGED <<hseed, files, handle, pool, committed, lvars>>

Probe ==
    /\ pc = "key"
    /\ IF src_hash_raises(run.req.src)
       THEN /\ run' = RaiseStep(run, src_hash_error(run.req.src))
            /\ aborted' = Aborted(None, "key", "raised")
       ELSE /\ run' = ProbeStep(run, files, hseed)
            /\ aborted' = aborted
    /\ UNCHANGED <<hseed, files, handle, pool, committed, lvars>>

HitLoad ==
    /\ pc = "hit"
    /\ \/ /\ ~Exists(files, run.metadata_path)
          /\ Raise("FileNotFoundError", "hit")
          /\ files' = files
       \/ /\ Exists(files, run.metadata_path)
          /\ \/ /\ run' = HitLoadStep(run, files)
                /\ files' = HitLoadStore(run, files)
                /\ aborted' = aborted
             \/ /\ Raise("StubError", "hit")
                /\ files' = files
    /\ UNCHANGED <<hseed, handle, pool, committed, lvars>>

\* return CompiledKernel(so_path, metadata_path), from either path
Return ==
    /\ pc \in {"hit_handle", "handle"}
    /\ IF CompiledKernel_init_error(files, ReturnedPath(run)) # ""
       THEN /\ Raise(CompiledKernel_init_error(files, ReturnedPath(run)), pc)
            /\ UNCHANGED <<handle, bind, uses, returned>>
       ELSE /\ run' = ReturnStep(run)
            /\ handle' = CompiledKernel_init(files, ReturnedPath(run))
            /\ bind' = NoBind
            /\ uses' = 0
            /\ aborted' = aborted
            /\ returned' = returned \cup {Returned(run, handle')}
    /\ UNCHANGED <<hseed, files, pool, committed, device, nlost, other>>

MissInit ==
    /\ pc = "miss"
    /\ IF InitialMetadata_raises(run.req)
       THEN Raise("TypeError", "metadata")
       ELSE \/ /\ run' = MissInitStep(run)
               /\ aborted' = aborted
            \/ Raise("ParseError", "make_ir")
    /\ UNCHANGED <<hseed, files, handle, pool, committed, lvars>>

Stage ==
    /\ pc = "stage"
    /\ \/ /\ Raise("StageFailure", "stage")
          /\ files' = files
       \/ /\ run' = StageStep(run)
          /\ files' = StageStore(run, files)
          /\ aborted' = aborted
    /\ UNCHANGED <<hseed, handle, pool, committed, lvars>>

WriteMetadata ==
    /\ pc = "write_meta"
    /\ \/ /\ Raise("PutError", "write_meta")
          /\ files' = files
       \/ /\ run' = WriteMetadataStep(run)
          /\ files' = WriteMetadataStore(run, files)
          /\ aborted' = aborted
    /\ UNCHANGED <<hseed, handle, pool, committed, lvars>>

PutGroup ==
    /\ pc = "put_group"
    /\ \/ /\ Raise("PutError", "put_group")
          /\ UNCHANGED <<files, committed>>
       \/ /\ run' = PutGroupStep(run)
          /\ files' = PutGroupStore(run, files)
          /\ committed' = committed \cup {run.key}
          /\ aborted' = {a \in aborted : a.key # run.key}
    /\ UNCHANGED <<hseed, handle, pool, lvars>>

Stub ==
    /\ pc = "stub"
    /\ \/ Raise("StubError", "stub")
       \/ /\ run' = StubStep(run)
          /\ aborted' = aborted
    /\ UNCHANGED <<hseed, files, handle, pool, committed, lvars>>

(***************************************************************************)
(* The process around compile().                                           *)
(***************************************************************************)
\* the process is killed in the middle of compile(); a new one starts
Interrupt ==
    /\ pc # "idle"
    /\ run' = [run EXCEPT !.pc = "idle", !.status = "interrupted"]
    /\ aborted' = IF run.path = "miss" THEN Aborted(run.key, pc, "interrupted")
                  ELSE aborted
    /\ \E s \in HashSeeds : hseed' = s
    /\ handle' = NoHandle
    /\ bind' = NoBind
    /\ uses' = 0
    /\ UNCHANGED <<files, pool, committed, device, nlost, returned, other>>

\* the process ends between two calls; a new one starts with its own hash seed
Restart ==
    /\ pc = "idle"
    /\ \E s \in HashSeeds \ {hseed} : hseed' = s
    /\ handle' = NoHandle
    /\ bind' = NoBind
    /\ uses' = 0
    /\ UNCHANGED <<run, files, pool, committed, aborted, device, nlost, returned, other>>

\* the steps of compile()
CompileNext ==
    \/ \E req \in Requests : Begin(req)
    \/ Probe
    \/ HitLoad
    \/ MissInit
    \/ Stage
    \/ WriteMetadata
    \/ PutGroup
    \/ Stub
    \/ Return

Next ==
    \/ CompileNext
    \/ Interrupt
    \/ Restart

Spec == Init /\ [][Next]_vars

(***************************************************************************)
(* The store loses a file that a committed group records (eviction, a      *)
(* partly cleaned cache directory).                                        *)
(***************************************************************************)
\* the paths of the artifacts recorded by the group files of the store
RecordedArtifacts(store) ==
    {p \in DOMAIN store :
        /\ p[2][1] = ""
        /\ \E g \in DOMAIN store :
              /\ g[1] = p[1]
              /\ g[2][1] = "__grp__"
              /\ p[2] \in store[g]}

LoseArtifact ==
    /\ pc = "idle"
    /\ nlost < MaxLost
    /\ nlost' = nlost + 1
    /\ \E p \in RecordedArtifacts(files) :
          files' = [q \in DOMAIN files \ {p} |-> files[q]]
    /\ UNCHANGED <<hseed, run, handle, pool, committed, aborted, device, bind, uses,
                   returned, other>>

\* compiles of one process over a store that loses files
NextCorrupt == CompileNext \/ LoseArtifact

SpecCorrupt == Init /\ [][NextCorrupt]_vars

(***************************************************************************)
(* CompiledKernel: binding and use.                                        *)
(***************************************************************************)
\* self.shared: the attribute set from the metadata field of that name
SharedOf(h) == DictGet(h.metadata, "shared")[1]

\* what driver.utils.load_binary returns for the n-th load of the process:
\* fresh module and function handles, register and spill counts
load_binary(n) == [module |-> n, function |-> n, n_regs |-> 32, n_spills |-> 0]

init_handles_Rebind(h, b, dev) ==
    IF SharedOf(h) > dev
    THEN [handle |-> h,
          bind |-> [b EXCEPT !.queries = @ + 1, !.error = "OutOfResources",
                       !.requested = SharedOf(h), !.available = dev,
                       !.what = "shared memory"]]
    ELSE [handle |-> [h EXCEPT !.module = load_binary(b.loads + 1).module,
                         !.function = load_binary(b.loads + 1).function,
                         !.n_regs = load_binary(b.loads + 1).n_regs,
                         !.n_spills = load_binary(b.loads + 1).n_spills],
          bind |-> [b EXCEPT !.queries = @ + 1, !.loads = @ + 1]]

init_handles_NoCheck(h, b, dev) ==
    IF h.module # 0 THEN [handle |-> h, bind |-> b]
    ELSE [handle |-> [h EXCEPT !.module = load_binary(b.loads + 1).module,
                         !.function = load_binary(b.loads + 1).function,
                         !.n_regs = load_binary(b.loads + 1).n_regs,
                         !.n_spills = load_binary(b.loads + 1).n_spills],
          bind |-> [b EXCEPT !.queries = @ + 1, !.loads = @ + 1]]

init_handles_GiveUp(h, b, dev) ==
    IF h.module # 0 \/ b.oor > 0 THEN [handle |-> h, bind |-> b]
    ELSE init_handles_Rebind(h, b, dev)

\* CompiledKernel._init_handles on handle h, with the device's
\* max_shared_mem being dev: the handle and the bookkeeping it leaves
init_handles(h, b, dev) ==
    IF h.module # 0 THEN [handle |-> h, bind |-> b]
    ELSE IF SharedOf(h) > dev
    THEN [handle |-> h,
          bind |-> [b EXCEPT !.queries = @ + 1, !.error = "OutOfResources",
                       !.requested = SharedOf(h), !.available = dev,
                       !.what = "shared memory"]]
    ELSE [handle |-> [h EXCEPT !.module = load_binary(b.loads + 1).module,
                         !.function = load_binary(b.loads + 1).function,
                         !.n_regs = load_binary(b.loads + 1).n_regs,
                         !.n_spills = load_binary(b.loads + 1).n_spills],
          bind |-> [b EXCEPT !.queries = @ + 1, !.loads = @ + 1]]

getattribute_c_wrapper_Plain(h, b, dev) == [handle |-> h, bind |-> b]

\* CompiledKernel.__getattribute__("c_wrapper")
getattribute_c_wrapper(h, b, dev) == init_handles(h, b, dev)

\* CompiledKernel.__getitem__(grid): the runner closure is returned unless
\* _init_handles raised
getitem(h, b, dev) ==
    LET r == init_handles(h, b, dev)
    IN  IF r.bind.error # "" THEN r ELSE [r EXCEPT !.bind.runner = TRUE]

\* a new use of the handle starts with no exception pending
ClearError(b) ==
    [b EXCEPT !.error = "", !.requested = 0, !.available = 0, !.what = ""]

\* history kept beside a use that ran _init_handles: whether it found the
\* handle unbound and on which device, the handles of the first bind, and
\* the queries made up to the first bind and up to the first OutOfResources
Track(h, b, dev, r) ==
    [r.bind EXCEPT
        !.entered = IF h.module = 0 THEN @ + 1 ELSE @,
        !.last_unbound = (h.module = 0),
        !.last_dev = dev,
        !.first_module = IF @ = 0 THEN r.handle.module ELSE @,
        !.first_function = IF @ = 0 THEN r.handle.function ELSE @,
        !.q_at_bind = IF b.first_module = 0 /\ r.handle.module # 0
                      THEN r.bind.queries ELSE @,
        !.oor = IF r.bind.error = "OutOfResources" THEN @ + 1 ELSE @,
        !.q_at_oor = IF b.oor = 0 /\ r.bind.error = "OutOfResources"
                     THEN r.bind.queries ELSE @]

\* the native entry point is invoked on handle h
Invoke(h, b) ==
    [b EXCEPT !.native_calls = @ + 1,
              !.unbound_calls = IF h.module = 0 \/ h.function = 0 THEN @ + 1 ELSE @]

\* the caller reads handle.c_wrapper and calls it (as the JIT launcher does)
CallEntryPoint ==
    /\ pc = "idle"
    /\ handle.live
    /\ uses < MaxUses
    /\ uses' = uses + 1
    /\ LET r == getattribute_c_wrapper(handle, ClearError(bind), device)
           t == Track(handle, bind, device, r)
       IN  /\ handle' = r.handle
           /\ bind' = IF r.bind.error = "" THEN Invoke(r.handle, t) ELSE t
    /\ UNCHANGED <<hseed, run, files, pool, committed, aborted, device, nlost, returned, other>>

\* handle[grid]
Index ==
    /\ pc = "idle"
    /\ handle.live
    /\ uses < MaxUses
    /\ uses' = uses + 1
    /\ LET r == getitem(handle, ClearError(bind), device)
       IN  /\ handle' = r.handle
           /\ bind' = Track(handle, bind, device, r)
    /\ UNCHANGED <<hseed, run, files, pool, committed, aborted, device, nlost, returned, other>>

runner_NoMarshal(h, b, dev, marshal_ok) ==
    LET r == getattribute_c_wrapper(h, ClearError(b), dev)
        t == Track(h, b, dev, r)
    IN  [handle |-> r.handle,
         bind |-> IF r.bind.error = ""
                  THEN [Invoke(r.handle, t) EXCEPT
                           !.marshal_errors = IF marshal_ok THEN @ ELSE @ + 1]
                  ELSE t]

\* the body of runner(*args, stream=None): driver.assemble_tensormap_to_arg
\* raises unless marshal_ok, and then self.c_wrapper is neither read nor
\* called
runner(h, b, dev, marshal_ok) ==
    IF ~marshal_ok
    THEN [handle |-> h,
          bind |-> [ClearError(b) EXCEPT !.error = "MarshalError",
                                         !.last_unbound = FALSE,
                                         !.marshal_errors = @ + 1]]
    ELSE LET r == getattribute_c_wrapper(h, ClearError(b), dev)
             t == Track(h, b, dev, r)
         IN  [handle |-> r.handle,
              bind |-> IF r.bind.error = "" THEN Invoke(r.handle, t) ELSE t]

\* a call of a runner closure obtained from handle[grid]
Launch(marshal_ok) ==
    /\ pc = "idle"
    /\ handle.live
    /\ bind.runner
    /\ uses < MaxUses
    /\ uses' = uses + 1
    /\ LET r == runner(handle, bind, device, marshal_ok)
       IN  /\ handle' = r.handle
           /\ bind' = r.bind
    /\ UNCHANGED <<hseed, run, files, pool, committed, aborted, device, nlost, returned, other>>

\* the current device changes (torch.cuda.set_device)
SetDevice ==
    /\ pc = "idle"
    /\ \E d \in MaxSharedVals \ {device} : device' = d
    /\ UNCHANGED <<hseed, run, files, handle, pool, committed, aborted, bind, uses, nlost,
                   returned, other>>

RECURSIVE Complete(_, _, _)
\* compile() run from after update_options to its return statement, or to
\* the TypeError of the key or of the metadata: the locals and the store there
Complete(r, store, seed) ==
    IF r.pc = "key" /\ src_hash_raises(r.req.src)
    THEN [run |-> RaiseStep(r, src_hash_error(r.req.src)), files |-> store]
    ELSE IF r.pc = "miss" /\ InitialMetadata_raises(r.req)
    THEN [run |-> RaiseStep(r, "TypeError"), files |-> store]
    ELSE IF r.pc = "key" THEN Complete(ProbeStep(r, store, seed), store, seed)
    ELSE IF r.pc = "hit"
         THEN Complete(HitLoadStep(r, store), HitLoadStore(r, store), seed)
    ELSE IF r.pc = "miss" THEN Complete(MissInitStep(r), store, seed)
    ELSE IF r.pc = "stage" THEN Complete(StageStep(r), StageStore(r, store), seed)
    ELSE IF r.pc = "write_meta"
         THEN Complete(WriteMetadataStep(r), WriteMetadataStore(r, store), seed)
    ELSE IF r.pc = "put_group"
         THEN Complete(PutGroupStep(r), PutGroupStore(r, store), seed)
    ELSE IF r.pc = "stub" THEN Complete(StubStep(r), store, seed)
    ELSE [run |-> r, files |-> store]

\* a whole compile() call that returns a handle
Compile(req) ==
    /\ pc = "idle"
    /\ req \in pool
    /\ ~update_options_raises(req.src)
    /\ \E c \in {Complete(BeginStep(NewRun(req)), files, hseed)} :
           /\ c.run.status # "failed"
           /\ CompiledKernel_init_error(c.files, ReturnedPath(c.run)) = ""
           /\ run' = ReturnStep(c.run)
           /\ files' = c.files
           /\ handle' = CompiledKernel_init(c.files, ReturnedPath(c.run))
           /\ committed' = IF c.run.path = "miss" THEN committed \cup {c.run.key}
                           ELSE committed
           /\ aborted' = IF c.run.path = "miss"
                         THEN {a \in aborted : a.key # c.run.key} ELSE aborted
           /\ returned' = returned \cup {Returned(c.run, handle')}
    /\ bind' = NoBind
    /\ uses' = 0
    /\ UNCHANGED <<hseed, pool, device, nlost, other>>

\* compiles that return, and the uses of the handle they return
NextLaunch ==
    \/ \E req \in Requests : Compile(req)
    \/ CallEntryPoint
    \/ Index
    \/ \E ok \in BOOLEAN : Launch(ok)
    \/ SetDevice

SpecLaunch == Init /\ [][NextLaunch]_vars

(***************************************************************************)
(* Compiles of two requests that differ in one argument of compile(), over *)
(* one store.                                                              *)
(***************************************************************************)
\* variants of the jitted function "add": another body, the same types under
\* other argument indices, another type, a constant binding, another
\* specialisation
SrcAstBody == [SrcAst EXCEPT !.cache_key = 12]
SrcAstSigKeys == [SrcAst EXCEPT !.signature.keys = <<0, 1, 3>>]
SrcAstSigTypes == [SrcAst EXCEPT !.signature.values = <<1, 2, 2>>]
SrcAstConst == [SrcAst EXCEPT !.constants = <<<<3, 16>>>>]
SrcAstSpec == [SrcAst EXCEPT !.config.divisible_by_16 = PySet(<<0>>)]
\* another ttgir text of the kernel "dot", with the same num-warps attribute
SrcTtgirText == [SrcTtgir EXCEPT !.text = 23]

ChangeSources ==
    {SrcAst, SrcAstBody, SrcAstSigKeys, SrcAstSigTypes, SrcAstConst, SrcAstSpec,
     SrcTtgir, SrcTtgirText}

\* extern_libs = {"libdevice": path}
LibDevice == <<"libdevice">>

ChangeRequests ==
    [src : ChangeSources, capability : {80, 90}, num_warps : KwNumWarps, env : Envs,
     extern_libs : {NoLibs, LibDevice}]

\* the arguments in which two requests differ
Differences(a, b) ==
    {f \in {"src", "capability", "num_warps", "env", "extern_libs"} : a[f] # b[f]}

\* a request and the same request with one argument changed
ChangePools ==
    UNION {{{a, b} : b \in {c \in ChangeRequests : Cardinality(Differences(a, c)) = 1}} :
           a \in ChangeRequests}

InitChange ==
    /\ hseed \in HashSeeds
    /\ pool \in ChangePools
    /\ run = [NewRun(CHOOSE r \in pool : TRUE) EXCEPT !.pc = "idle", !.status = "none"]
    /\ files = <<>>
    /\ handle = NoHandle
    /\ committed = {}
    /\ aborted = {}
    /\ device = 49152
    /\ bind = NoBind
    /\ uses = 0
    /\ nlost = 0
    /\ returned = {}
    /\ other = NoOther(CHOOSE r \in pool : TRUE)

\* compiles of one process
NextChange == \E req \in ChangeRequests : Compile(req)

SpecChange == InitChange /\ [][NextChange]_vars

(***************************************************************************)
(* Two processes compile for the same key over one cache directory; their  *)
(* steps interleave.  Each put and each put_group is one step (the cache   *)
(* manager writes through a temporary file and renames it).                *)
(***************************************************************************)
\* the locals after the next step of a compile() call that does not raise
StepRun(r, store, seed) ==
    CASE r.pc = "key" -> ProbeStep(r, store, seed)
      [] r.pc = "hit" -> HitLoadStep(r, store)
      [] r.pc = "miss" -> MissInitStep(r)
      [] r.pc = "stage" -> StageStep(r)
      [] r.pc = "write_meta" -> WriteMetadataStep(r)
      [] r.pc = "put_group" -> PutGroupStep(r)
      [] r.pc = "stub" -> StubStep(r)

\* the store after that step
StepStore(r, store) ==
    CASE r.pc = "hit" -> HitLoadStore(r, store)
      [] r.pc = "stage" -> StageStore(r, store)
      [] r.pc = "write_meta" -> WriteMetadataStore(r, store)
      [] r.pc = "put_group" -> PutGroupStore(r, store)
      [] OTHER -> store

\* both processes run in one environment
RaceEnvs == {<<EnvItem("ENABLE_TMA", 0), EnvItem("MLIR_ENABLE_DUMP", 0)>>}

\* the seeds that order the pairs of these snapshots differently
RaceSeeds == {0, 1}

\* the two calls compile the file of SrcTtgir, with and without extern_libs
RaceRequests ==
    [src : {SrcTtgir}, capability : Capabilities, num_warps : {4},
     env : RaceEnvs, extern_libs : {NoLibs, LibDevice}]

\* the requests for which compile() computes the same key in one process
SameKey(a, b) ==
    \A s \in HashSeeds :
        CacheKey(a, RefinedOptions(a), s) = CacheKey(b, RefinedOptions(b), s)

\* the request of the first and of the second process
RacePools ==
    {P \in {{a, b} : a, b \in RaceRequests} : \A a, b \in P : SameKey(a, b)}

\* each process has its own hash seed
InitRace ==
    /\ hseed \in RaceSeeds
    /\ pool \in RacePools
    /\ run = [NewRun(CHOOSE r \in pool : TRUE) EXCEPT !.pc = "idle", !.status = "none"]
    /\ files = <<>>
    /\ handle = NoHandle
    /\ committed = {}
    /\ aborted = {}
    /\ device = 49152
    /\ bind = NoBind
    /\ uses = 0
    /\ nlost = 0
    /\ returned = {}
    /\ \E s \in RaceSeeds : other = [NoOther(CHOOSE r \in pool : TRUE) EXCEPT !.hseed = s]

\* CompiledKernel.__init__, first read: self.metadata = json.loads(...)
InitMetadataStep(r, store) ==
    [r EXCEPT !.pc = "init_glob",
              !.self = [NoHandle EXCEPT !.metadata = json_loads(store[ReturnedPath(r)])]]

\* asm_files = [file for file in metadata_path.parent.glob(...) if ...]
InitGlobStep(r, store) ==
    [r EXCEPT !.pc = "init_read", !.asm_files = AsmFiles(store, ReturnedPath(r))]

\* one iteration of the comprehension that fills self.asm: the file at path p
\* is read as it is in the store at that moment
InitReadStep(r, store, p) ==
    [r EXCEPT !.self.asm = [ext \in DOMAIN @ \cup {p[2][3]} |->
                               IF ext = p[2][3] THEN store[p] ELSE @[ext]]]

\* the files of asm_files not read yet
Unread(r) == {p \in r.asm_files : p[2][3] \notin DOMAIN r.self.asm}

\* self.kernel = self.asm[driver.binary_ext]; self.module = None;
\* self.function = None: the finished object
InitDone(r) == [r.self EXCEPT !.live = TRUE, !.kernel = r.self.asm[binary_ext]]

\* the successors of one step of a compile() call of either process: the
\* locals and the store after it.  The constructor of the handle reads the
\* metadata file, lists the directory and reads the artifacts one at a time
\* (in the order of the listing, which the file system decides), so the
\* other process can put files between two reads; a file that is gone is a
\* FileNotFoundError, a missing binary a KeyError at line 234.
ProcSteps(r, store, seed) ==
    IF r.pc = "key" /\ src_hash_raises(r.req.src)
    THEN {[run |-> RaiseStep(r, src_hash_error(r.req.src)), files |-> store]}
    ELSE IF r.pc = "miss" /\ InitialMetadata_raises(r.req)
    THEN {[run |-> RaiseStep(r, "TypeError"), files |-> store]}
    ELSE IF r.pc \in {"hit_handle", "handle"}
    THEN {[run |-> IF Exists(store, ReturnedPath(r))
                   THEN InitMetadataStep(r, store)
                   ELSE RaiseStep(r, "FileNotFoundError"),
           files |-> store]}
    ELSE IF r.pc = "init_glob"
    THEN {[run |-> InitGlobStep(r, store), files |-> store]}
    ELSE IF r.pc = "init_read" /\ Unread(r) # {}
    THEN {[run |-> IF Exists(store, p) THEN InitReadStep(r, store, p)
                   ELSE RaiseStep(r, "FileNotFoundError"),
           files |-> store] : p \in Unread(r)}
    ELSE IF r.pc = "init_read"
    THEN {[run |-> IF binary_ext \in DOMAIN r.self.asm
                   THEN [ReturnStep(r) EXCEPT !.self = InitDone(r)]
                   ELSE RaiseStep(r, "KeyError"),
           files |-> store]}
    ELSE {[run |-> StepRun(r, store, seed), files |-> StepStore(r, store)]}

\* the first process enters compile()
RaceBegin(req) ==
    /\ pc = "idle"
    /\ req \in pool
    /\ run' = BeginStep(NewRun(req))
    /\ UNCHANGED <<hseed, files, handle, pool, committed, aborted, lvars>>

\* the first process takes the next step of its call; the object its
\* constructor returns becomes the handle of the process
RaceStep ==
    /\ pc # "idle"
    /\ \E n \in ProcSteps(run, files, hseed) :
          /\ run' = n.run
          /\ files' = n.files
          /\ IF pc = "init_read" /\ n.run.status = "done"
             THEN /\ handle' = n.run.self
                  /\ bind' = NoBind
                  /\ uses' = 0
             ELSE UNCHANGED <<handle, bind, uses>>
    /\ committed' = IF pc = "put_group" THEN committed \cup {run.key} ELSE committed
    /\ UNCHANGED <<hseed, pool, aborted, device, nlost, returned, other>>

\* the second process enters compile()
OtherBegin(req) ==
    /\ other.run.pc = "idle"
    /\ req \in pool
    /\ other' = [other EXCEPT !.run = BeginStep(NewRun(req))]
    /\ UNCHANGED <<hseed, run, files, handle, pool, committed, aborted, device, bind,
                   uses, nlost, returned>>

\* the second process takes the next step of its call, with its own hash
\* seed; the object its constructor returns stays in its locals
OtherStep ==
    /\ other.run.pc # "idle"
    /\ \E n \in ProcSteps(other.run, files, other.hseed) :
          /\ other' = [other EXCEPT !.run = n.run]
          /\ files' = n.files
    /\ committed' = IF other.run.pc = "put_group" THEN committed \cup {other.run.key}
                    ELSE committed
    /\ UNCHANGED <<hseed, run, handle, pool, aborted, device, bind, uses, nlost,
                   returned>>

NextRace ==
    \/ \E req \in RaceRequests : RaceBegin(req)
    \/ RaceStep
    \/ \E req \in RaceRequests : OtherBegin(req)
    \/ OtherStep

SpecRace == InitRace /\ [][NextRace]_vars

(***************************************************************************)
(* Properties.                                                             *)
(***************************************************************************)
\* the call has just probed the cache
Probed == pc \in {"hit", "miss"}

LogOps(r) == {r.log[i][1] : i \in 1..Len(r.log)}

GroupPath(r) == PathOf(r.key, GroupName(MetadataFilename(r.req.src)))
MetadataPath(r) == PathOf(r.key, MetadataFilename(r.req.src))

\* the last miss run for key k was cut short in the way `how`, before
\* (commit = FALSE) or after (commit = TRUE) its put_group returned, and no
\* run has committed k since
CutShort(k, how, commit) ==
    \E a \in aborted : a.key = k /\ a.how = how /\ a.commit = commit

\* C1: once a compile of these inputs has committed its group, a later
\* compile of the same inputs in the same environment takes the hit path; a
\* hit run calls no stage function and no initial-IR producer and writes
\* nothing: it loads the metadata, requests the stub and builds the handle.
C1_CommittedKeyHits ==
    /\ (Probed /\ CacheKey(run.req, run.options, hseed) \in committed) => pc = "hit"
    /\ run.path = "hit" =>
          LogOps(run) \subseteq {"update_options", "key", "get_group", "read_metadata",
                                 "make_launcher_stub", "CompiledKernel"}
    /\ (run.path = "hit" /\ run.status = "done") =>
          run.log = <<Event("update_options", ""), Event("key", ""),
                      Event("get_group", ""), Event("read_metadata", ""),
                      Event("make_launcher_stub", ""), Event("CompiledKernel", "")>>

C1_Witness ==
    /\ run.path = "hit"
    /\ run.status = "done"
    /\ run.key \in committed
    /\ handle.live

\* C2: after a miss run was interrupted before put_group (whatever it had
\* put by then), the next compile for the same key gets no metadata path
\* from the probe and takes the miss path.
C2_InterruptedRunLeavesMiss ==
    (Probed /\ CutShort(run.key, "interrupted", FALSE)) =>
        /\ pc = "miss"
        /\ run.metadata_path = None

C2_Witness ==
    /\ pc = "miss"
    /\ CutShort(run.key, "interrupted", FALSE)
    /\ Exists(files, MetadataPath(run))
    /\ Exists(files, PathOf(run.key, ArtifactName(run.req.src.name, binary_ext)))

\* C3: a run in which a stage raised has not called put_group, and no group
\* file of its key is in the store.
C3_StageFailureCommitsNothing ==
    (run.status = "failed" /\ run.error = "StageFailure") =>
        /\ "put_group" \notin LogOps(run)
        /\ ~Exists(files, GroupPath(run))
        /\ get_group(files, run.key, MetadataFilename(run.req.src)) = None

C3_Witness ==
    /\ run.status = "failed"
    /\ run.error = "StageFailure"
    /\ DOMAIN run.cache_group # {}

\* C4 as claimed: after a compile failed at any step of the miss path, the
\* next compile for the same key does not observe a cache hit.
C4_FailedCompileLeavesMiss ==
    (Probed /\ \E c \in BOOLEAN : CutShort(run.key, "raised", c)) => pc = "miss"

\* C4 as amended: a compile that fails before its put_group has returned
\* (option refinement, initial IR, a stage, the metadata write, the group
\* write) leaves a miss for its key; a compile that fails in the launcher
\* stub build, after the commit, leaves a hit.
C4_FailureBeforeCommitLeavesMiss ==
    /\ (Probed /\ CutShort(run.key, "raised", FALSE)) => pc = "miss"
    /\ (Probed /\ CutShort(run.key, "raised", TRUE)) => pc = "hit"
    /\ update_options_raises(run.req.src) => (run.path = "" /\ run.key = None)

C4_Witness ==
    /\ pc = "miss"
    /\ CutShort(run.key, "raised", FALSE)
    /\ Exists(files, MetadataPath(run))

\* C5: when the probe returns a group mapping from which a recorded artifact
\* is missing, compile takes the miss path, and neither compile nor the
\* construction of the handle raises because of the missing file.
C5_PartialGroupIsMiss ==
    /\ (Probed /\ run.missing # {}) => pc = "miss"
    /\ run.missing # {} => run.error \notin {"KeyError", "FileNotFoundError"}

\* C6: a use that runs _init_handles on an unbound handle raises
\* OutOfResources(requested, available, "shared memory") with the handle's
\* requirement and the device's maximum when the requirement is strictly
\* greater, loading nothing and binding nothing; otherwise it loads the
\* binary and binds module, function, register and spill counts.
C6_ResourceCheck ==
    (handle.live /\ bind.last_unbound) =>
        IF SharedOf(handle) > bind.last_dev
        THEN /\ bind.error = "OutOfResources"
             /\ bind.requested = SharedOf(handle)
             /\ bind.available = bind.last_dev
             /\ bind.what = "shared memory"
             /\ bind.loads = 0
             /\ handle.module = 0
             /\ handle.function = 0
        ELSE /\ bind.error = ""
             /\ bind.loads = 1
             /\ handle.module = load_binary(1).module
             /\ handle.function = load_binary(1).function
             /\ handle.n_regs = load_binary(1).n_regs
             /\ handle.n_spills = load_binary(1).n_spills

C6_Witness ==
    /\ handle.live
    /\ bind.last_unbound
    /\ bind.oor > 0
    /\ SharedOf(handle) = 70000
    /\ bind.last_dev = 101376
    /\ handle.module = load_binary(1).module

\* C7: the binary of a handle is loaded at most once; once bound, no use
\* makes a further device query or load, and module and function keep the
\* values of the first bind.
C7_BoundOnce ==
    /\ bind.loads <= 1
    /\ handle.module # 0 =>
          /\ bind.loads = 1
          /\ bind.queries = bind.q_at_bind
          /\ handle.module = bind.first_module
          /\ handle.function = bind.first_function

C7_Witness ==
    /\ handle.module # 0
    /\ bind.entered = 1
    /\ uses = MaxUses
    /\ bind.native_calls >= 2

\* C8: a freshly constructed handle has made no device query and no load
\* and is unbound; a runner is only handed out by a bound handle, and the
\* native entry point is never invoked on an unbound handle.
C8_LazyBindBeforeUse ==
    /\ (handle.live /\ uses = 0) =>
          /\ bind.queries = 0
          /\ bind.loads = 0
          /\ handle.module = 0
          /\ handle.function = 0
    /\ bind.runner => (handle.module # 0 /\ handle.function # 0)
    /\ bind.unbound_calls = 0

C8_Witness ==
    /\ uses = 1
    /\ bind.native_calls = 1
    /\ bind.queries = 1
    /\ handle.module # 0

\* C9 as claimed: after a use failed with OutOfResources, the handle makes
\* no further device query and no load.
C9_NoRetryAfterOutOfResources ==
    bind.oor > 0 => (bind.queries = bind.q_at_oor /\ bind.loads = 0)

\* C9 as amended: a failed bind leaves the handle unbound and unmarked, so
\* every later use that finds it unbound queries the device again, and
\* binds when the requirement fits the device of that moment.
C9_RetryAfterOutOfResources ==
    /\ bind.queries = bind.entered
    /\ bind.error = "OutOfResources" => (handle.module = 0 /\ handle.function = 0)
    /\ (bind.oor > 0 /\ bind.last_unbound /\ SharedOf(handle) <= bind.last_dev) =>
          handle.module # 0

C9_Witness ==
    /\ bind.oor > 0
    /\ bind.queries > bind.q_at_oor
    /\ handle.module # 0

\* C10: all compiles of one set of inputs compute the same key, whatever
\* process runs them and in whatever order the environment is enumerated,
\* and the metadata texts they write are identical.
C10_KeyDeterministic ==
    /\ \A k \in committed : run.key # None => run.key = k
    /\ \A p, q \in DOMAIN files :
          (p[2][3] = "json" /\ q[2][3] = "json" /\ p[2][1] = "" /\ q[2][1] = "")
              => files[p] = files[q]

\* the sets a specialisation holds, whatever the order of their tables
ConfigContent(config) ==
    [f \in DOMAIN config |->
        IF config[f] = None THEN <<TRUE, {}>> ELSE <<FALSE, Elems(config[f])>>]

\* the content of a source as the caller sees it: body fingerprint,
\* signature mapping, constants and specialisation sets, or the IR text
SourceContent(src) ==
    IF src.kind = "ast"
    THEN <<src.cache_key,
           {<<src.signature.keys[i], src.signature.values[i]>> :
               i \in 1..Len(src.signature.keys)},
           src.constants, ConfigContent(src.config)>>
    ELSE <<src.text>>

\* the content of a source with the signature taken as its sequence of types
SourceFingerprint(src) ==
    IF src.kind = "ast"
    THEN <<src.cache_key, src.signature.values, src.constants,
           ConfigContent(src.config)>>
    ELSE <<src.text>>

\* the options in force once refine has run
OptionsOf(inputs) == update_options(inputs.src, parse_options(inputs.num_warps))

\* C11 as claimed: two compiles that differ in the source content (the
\* signature mapping included), the target, an options field or a
\* fingerprinted environment variable compute different keys, and a hit is
\* only taken on a group committed by a compile that differs in none of them.
C11_AnyChangeMisses ==
    LET In(e) == <<SourceContent(e.inputs.src), e.inputs.capability,
                   OptionsOf(e.inputs), e.inputs.env>>
    IN  /\ \A e, f \in returned : In(e) # In(f) => e.key # f.key
        /\ \A e \in returned : e.path = "hit" =>
              \E f \in returned : f.path = "miss" /\ f.key = e.key /\ In(f) = In(e)

\* C11 as amended: the same, with the signature counted by its sequence of
\* argument types (the argument indices that key the mapping are not hashed).
C11_FingerprintChangeMisses ==
    LET In(e) == <<SourceFingerprint(e.inputs.src), e.inputs.capability,
                   OptionsOf(e.inputs), e.inputs.env>>
    IN  /\ \A e, f \in returned : In(e) # In(f) => e.key # f.key
        /\ \A e \in returned : e.path = "hit" =>
              \E f \in returned : f.path = "miss" /\ f.key = e.key /\ In(f) = In(e)

C11_Witness ==
    \E e, f, g \in returned :
        /\ e.path = "miss" /\ f.path = "miss" /\ g.path = "hit"
        /\ e.inputs.env # f.inputs.env
        /\ e.key # f.key
        /\ g.key = f.key

\* the handle compile(req) returns when the store is empty: a fresh compile
FreshHandle(req) ==
    LET c == Complete(BeginStep(NewRun(req)), <<>>, hseed)
    IN  CompiledKernel_init(c.files, ReturnedPath(c.run))

\* C12: the handle a compile returns, on either path, holds the binary and
\* the texts that a fresh compile of the same request would have produced.
C12_HitReturnsFreshArtifact ==
    (run.status = "done" /\ handle.live) =>
        /\ handle.kernel = FreshHandle(run.req).kernel
        /\ handle.asm = FreshHandle(run.req).asm

\* src.update_options(options) has returned in the current call
Refined(r) == r.log # <<>> /\ r.log[1] = Event("update_options", "")

\* ttgir text in which the num-warps attribute occurs exactly once
OneWarpCount(src) ==
    src.kind = "ir" /\ src.ext = "ttgir" /\ Len(src.num_warps_matches) = 1

\* the num_warps field of the metadata file stored for the key of run r
StoredWarps(r) == DictGet(json_loads(files[MetadataPath(r)]), "num_warps")

\* C13 as claimed: for ttgir text with exactly one num-warps attribute of
\* value N, the options hold num_warps = N from refine on, whatever the
\* caller passed, no stage precedes refine, and the metadata persisted for
\* the key has num_warps = N.
C13_WarpsFromAttribute ==
    (Refined(run) /\ OneWarpCount(run.req.src)) =>
        /\ run.options.num_warps = run.req.src.num_warps_matches[1]
        /\ Exists(files, MetadataPath(run)) =>
              StoredWarps(run) = <<run.req.src.num_warps_matches[1]>>

\* the warp count the text declares: N, times the number of warp groups
\* when the text carries that attribute
DeclaredWarps(src) ==
    IF src.num_warp_groups_matches = <<>> THEN src.num_warps_matches[1]
    ELSE src.num_warps_matches[1] * src.num_warp_groups_matches[1]

\* C13 as amended: for ttgir text with exactly one num-warps attribute of
\* value N, a call whose text carries the num-warp-groups-per-cta attribute
\* at most once gets past refine with the options holding N, or N times the
\* value of that attribute when it occurs, whatever the caller passed, and
\* the metadata persisted for the key holds the same number; a call whose
\* text carries that attribute more than once fails in refine with an
\* AssertionError, having probed, run and stored nothing.  No stage precedes
\* refine.
C13_WarpsFromAttributeAndGroups ==
    /\ (run.status # "none" /\ OneWarpCount(run.req.src)) =>
          IF Len(run.req.src.num_warp_groups_matches) <= 1
          THEN /\ Refined(run)
               /\ run.options.num_warps = DeclaredWarps(run.req.src)
               /\ Exists(files, MetadataPath(run)) =>
                     StoredWarps(run) = <<DeclaredWarps(run.req.src)>>
          ELSE /\ run.status = "failed"
               /\ run.error = "AssertionError"
               /\ run.log = <<Event("update_options", "raise")>>
               /\ run.options.num_warps = run.req.num_warps
               /\ run.key = None
               /\ files = <<>>
    /\ \A i \in 1..Len(run.log) : run.log[i][1] = "stage" => Refined(run)

C13_Witness ==
    /\ run.req.src = SrcTtgirGroups
    /\ run.status = "done"
    /\ run.path = "miss"
    /\ run.req.num_warps = 8
    /\ StoredWarps(run) = <<12>>

\* C14: a compile of ttgir text in which the num-warps attribute occurs zero
\* times or more than once fails in refine with an error; the call has made
\* no cache probe, no put, no put_group and no stage invocation, and the
\* store is as it was.
C14_MalformedIRFailsBeforeCache ==
    (/\ run.status # "none"
     /\ run.req.src.kind = "ir"
     /\ run.req.src.ext = "ttgir"
     /\ Len(run.req.src.num_warps_matches) # 1) =>
        /\ run.status = "failed"
        /\ run.error = "AssertionError"
        /\ run.log = <<Event("update_options", "raise")>>
        /\ run.key = None
        /\ run.path = ""
        /\ files = <<>>

C14_Witness ==
    /\ run.req.src = SrcTtgirTwoWarps
    /\ run.status = "failed"
    /\ run.error = "AssertionError"
    /\ files = <<>>

\* the names a committed group of request req records: the metadata and one
\* artifact per stage from the source's format on
GroupNames(req) ==
    {MetadataFilename(req.src)} \cup
    {ArtifactName(req.src.name, StageChain[i]) :
        i \in IndexOf(StageChain, req.src.ext)..Len(StageChain)}

\* what the probe of call r returned is a miss, or a whole group whose files
\* are all in the store
WholeOrMiss(r) ==
    \/ r.cache_group = EmptyGroup /\ r.metadata_path = None /\ r.pc = "miss"
    \/ /\ r.pc = "hit"
       /\ r.missing = {}
       /\ DOMAIN r.cache_group = GroupNames(r.req)
       /\ \A n \in GroupNames(r.req) : Exists(files, PathOf(r.key, n))

\* the store a single compile of req leaves, starting from an empty one
SingleRun(req) == Complete(BeginStep(NewRun(req)), <<>>, hseed).files

\* C15: with two compiles for one key interleaving, every probe returns a
\* miss or a whole group, and once both calls have returned, having computed
\* the same key, the store holds what a single compile of one of the
\* requests would have left.
C15_RaceLeavesSingleRunStore ==
    /\ run.pc \in {"hit", "miss"} => WholeOrMiss(run)
    /\ other.run.pc \in {"hit", "miss"} => WholeOrMiss(other.run)
    /\ (/\ run.status = "done"
        /\ other.run.status = "done"
        /\ run.key = other.run.key) =>
          \E req \in pool : files = SingleRun(req)

\* C16: the handles returned for one key, by the miss run that committed it
\* and by every later hit, expose the same metadata, and the metadata file
\* of the key still holds what each of them read.
C16_MetadataReadBackVerbatim ==
    /\ \A e, f \in returned : e.key = f.key => e.metadata = f.metadata
    /\ \A e \in returned :
          LET mpath == PathOf(e.key, MetadataFilename(e.inputs.src))
          IN  /\ Exists(files, mpath)
              /\ json_loads(files[mpath]) = e.metadata

C16_Witness ==
    \E e, f \in returned :
        /\ e.key = f.key
        /\ e.path = "miss"
        /\ f.path = "hit"
        /\ HasKey(f.metadata, "shared")
        /\ run.path = "hit"
        /\ run.status = "done"

\* the fields of the handle and of its bookkeeping that make its binding
BindingState(h, b) ==
    <<h.module, h.function, h.n_regs, h.n_spills, b.loads, b.queries>>

\* C17: a launch whose argument marshalling fails leaves module, function
\* and resource counts as they were, binds nothing and does not invoke the
\* native entry point; the launch that follows it invokes the entry point
\* once on the same binding.
C17_FailedMarshalKeepsBinding ==
    [][/\ bind'.marshal_errors > bind.marshal_errors =>
             /\ BindingState(handle', bind') = BindingState(handle, bind)
             /\ handle.module # 0
             /\ bind'.native_calls = bind.native_calls
             /\ bind'.error = "MarshalError"
       /\ (/\ bind.error = "MarshalError"
           /\ bind'.native_calls > bind.native_calls) =>
             /\ BindingState(handle', bind') = BindingState(handle, bind)
             /\ bind'.native_calls = bind.native_calls + 1
             /\ bind'.unbound_calls = bind.unbound_calls
             /\ bind'.error = ""]_vars

C17_Witness ==
    /\ handle.live
    /\ uses = 3
    /\ bind.marshal_errors = 1
    /\ bind.native_calls = 1
    /\ bind.error = ""
    /\ bind.loads = 1
    /\ handle.module = load_binary(1).module

\* the stage calls and artifact puts of a run, in the order it made them
StagePuts(r) ==
    SelectSeq(r.log, LAMBDA e : e[1] = "stage" \/ (e[1] = "put" /\ e[2] # "json"))

\* the chain from the native format of src to its end
ChainFrom(src) == SubSeq(StageChain, IndexOf(StageChain, src.ext), Len(StageChain))

\* each stage of ChainFrom(src) once, in order, each followed by its put
ExpectedStagePuts(src) ==
    [k \in 1..(2 * Len(ChainFrom(src))) |->
        IF k % 2 = 1 THEN Event("stage", ChainFrom(src)[(k + 1) \div 2])
        ELSE Event("put", ChainFrom(src)[k \div 2])]

RECURSIVE Lowered(_, _, _)
\* the module after the first n stages of ChainFrom(req.src), from make_ir
Lowered(req, options, n) ==
    IF n = 0 THEN make_ir(req.src, options)
    ELSE compile_ir_module(ChainFrom(req.src)[n], Lowered(req, options, n - 1),
                           req.extern_libs)

\* C18: a miss run invokes no stage before the native format of the source
\* and each stage from there on once and in chain order; the first gets the
\* module of make_ir, every later one the result of the stage before it,
\* and that result is in the store under {name}.{ext} by then.
C18_StagesFromNativeFormat ==
    run.path = "miss" /\ run.i > 0 =>
        LET src  == run.req.src
            done == Len(StagePuts(run)) \div 2
        IN  /\ Len(StagePuts(run)) <= Len(ExpectedStagePuts(src))
            /\ StagePuts(run) = SubSeq(ExpectedStagePuts(src), 1, Len(StagePuts(run)))
            /\ run.module = Lowered(run.req, run.options, done)
            /\ pc \in {"write_meta", "put_group", "stub", "handle"} \/ run.status = "done"
                  => done = Len(ChainFrom(src))
            /\ pc = "stage" /\ done > 0 =>
                  LET prev == PathOf(run.key, ArtifactName(src.name, ChainFrom(src)[done]))
                  IN  Exists(files, prev) /\ files[prev] = run.module

C18_Witness ==
    /\ run.path = "miss"
    /\ run.req.src = SrcTtgir
    /\ pc = "put_group"
    /\ StagePuts(run) = ExpectedStagePuts(SrcTtgir)
    /\ StagePuts(run)[1] = Event("stage", "ttgir")
    /\ Event("stage", "ttir") \notin Range(run.log)

\* the positions in the log of call r of the events named op
EventsAt(r, op) == {i \in 1..Len(r.log) : r.log[i][1] = op}

\* C19: a miss run calls put_group at most once, and once when it completes,
\* after the put of every stage artifact and of the metadata; the group it
\* commits names the metadata file and the artifact of each stage it ran;
\* it asks for the launcher stub only after the commit.
C19_GroupCommittedOnceAfterPuts ==
    run.path = "miss" =>
        /\ Cardinality(EventsAt(run, "put_group")) <= 1
        /\ \A g \in EventsAt(run, "put_group") :
              /\ \A p \in EventsAt(run, "put") : p < g
              /\ {run.log[p][2] : p \in EventsAt(run, "put")}
                    = Range(ChainFrom(run.req.src)) \cup {"json"}
              /\ Cardinality(EventsAt(run, "put")) = Len(ChainFrom(run.req.src)) + 1
        /\ \A s \in EventsAt(run, "make_launcher_stub") :
              \E g \in EventsAt(run, "put_group") : g < s
        /\ pc \in {"stage", "write_meta", "put_group"} => ~Exists(files, GroupPath(run))
        /\ pc \in {"stub", "handle"} \/ run.status = "done" =>
              /\ Cardinality(EventsAt(run, "put_group")) = 1
              /\ Exists(files, GroupPath(run))
              /\ files[GroupPath(run)] = GroupNames(run.req)
              /\ files[GroupPath(run)] = DOMAIN run.cache_group

C19_Witness ==
    /\ run.path = "miss"
    /\ run.status = "done"
    /\ run.req.src = SrcTtgir
    /\ Cardinality(EventsAt(run, "put")) = 5
    /\ EventsAt(run, "make_launcher_stub") # {}
    /\ Cardinality(files[GroupPath(run)]) = 5

\* C20: a compile on the hit path puts no artifact and no group, and none of
\* its steps changes the store.
C20_HitLeavesStoreUnchanged ==
    /\ [](run.path = "hit" =>
            LogOps(run) \cap {"put", "put_group", "stage", "make_ir"} = {})
    /\ [][run'.path = "hit" /\ pc # "idle" => files' = files]_vars

C20_Witness ==
    /\ run.path = "hit"
    /\ run.status = "done"
    /\ handle.live
    /\ "make_launcher_stub" \in LogOps(run)
    /\ Exists(files, GroupPath(run))
    /\ files[GroupPath(run)] = GroupNames(run.req)

\* two returned compiles whose inputs differ in the caller's num_warps only
OnlyWarpsDiffer(e, f) ==
    /\ e.inputs.num_warps # f.inputs.num_warps
    /\ [e.inputs EXCEPT !.num_warps = 0] = [f.inputs EXCEPT !.num_warps = 0]

\* C21: update_options runs before the key is composed, so two compiles of
\* one ttgir text that differ only in the num_warps the caller passed compute
\* the same key, and only the first of them takes the miss path.
C21_KeyFromRefinedOptions ==
    /\ \A k \in EventsAt(run, "key") :
          \E u \in EventsAt(run, "update_options") : u < k
    /\ \A e, f \in returned :
          e.inputs.src.ext = "ttgir" /\ OnlyWarpsDiffer(e, f) =>
              /\ e.key = f.key
              /\ ~(e.path = "miss" /\ f.path = "miss")

C21_Witness ==
    \E e, f \in returned :
        /\ e.inputs.src = SrcTtgir
        /\ OnlyWarpsDiffer(e, f)
        /\ e.inputs.num_warps = 4
        /\ f.inputs.num_warps = 8
        /\ e.path = "miss"
        /\ f.path = "hit"
        /\ e.key = f.key
        /\ run.req.num_warps = 8
        /\ run.path = "hit"
        /\ EventsAt(run, "key") # {}

=============================================================================
